---- MODULE Spec2Model ----
(***************************************************************************)
(* A model of src/src/controllers/article.controller.ts: the favourite     *)
(* toggle (favouriteArticle / unfavouriteArticle) running as concurrent    *)
(* request handlers over the Favourite collection and the denormalized     *)
(* Article.favouriteCount, and the four listing operations                 *)
(* (getFavouriteArticles, getFeedArticles, getUserCreatedArticles,         *)
(* searchArticles) as reads of that store.                                 *)
(***************************************************************************)
EXTENDS Integers, Sequences, FiniteSets, TLC

\* ------------------------------------------------------------------ bounds
\* Number of toggle requests (handler invocations) in one behaviour.
MaxReqs == 3

\* Number of Favourite documents in the store a listing request reads.
MaxFavs == 2

\* ---------------------------------------------------------------- fixtures
\* User documents (schema.prisma, model User): id and unique username.
Users == { [id |-> 1, username |-> "alice"], [id |-> 2, username |-> "bob"] }

UserIds == { u.id : u \in Users }

\* Article documents (schema.prisma, model Article).  createdAt is a logical
\* timestamp; a title or a tag is the sequence of its characters.
Articles ==
  { [id |-> 1, slug |-> "s1", author_id |-> 1, createdAt |-> 1,
     title |-> <<"G", "o">>, tags |-> << <<"g", "o">>, <<"b", "e">> >>],
    [id |-> 2, slug |-> "s2", author_id |-> 1, createdAt |-> 2,
     title |-> <<"g", "o", "2">>, tags |-> << >>],
    [id |-> 3, slug |-> "s3", author_id |-> 2, createdAt |-> 3,
     title |-> <<"P", "y">>, tags |-> << <<"P", "Y">> >>] }

ArticleIds == { a.id : a \in Articles }

\* Follow documents (schema.prisma, model Follow): bob follows alice, alice
\* follows nobody.
Follows == { [follower_id |-> 2, following_id |-> 1] }

\* Usernames a listing request may carry; "ghost" is the name of no user.
Usernames == {"alice", "bob", "ghost"}

\* A query parameter that is not in the request.
Absent == "<absent>"

\* Raw values of the limit and page query parameters.
QueryNums == {Absent, "0", "1", "2", "2x", "abc"}

\* Raw values of the title and tags query parameters of a search; the empty
\* string is the parameter left out (or given empty: both are falsy).
QueryTexts == { << >>, <<"g", "o">>, <<"y">> }

\* Slugs a toggle request may carry; "nope" is the slug of no article.
ToggleSlugs == {"s1", "s2", "nope"}

\* where: { slug } on Article: the id of the article with that slug, 0 if none.
ArticleBySlug(slug) ==
  IF \E a \in Articles : a.slug = slug
  THEN (CHOOSE a \in Articles : a.slug = slug).id
  ELSE 0

Reqs == 1..MaxReqs

VARIABLES
  favourites,      \* committed Favourite documents: [id, user_id, article_id]
  favouriteCount,  \* committed Article.favouriteCount, by article id
  nextId,          \* the next Favourite id the store hands out
  req,             \* per toggle request: the handler's position and locals
  resp             \* the response of the latest listing request

vars == <<favourites, favouriteCount, nextId, req, resp>>

db == <<favourites, favouriteCount>>

NewReq ==
  [pc |-> "new", op |-> "none", viewer |-> 0, slug |-> "", found |-> 0,
   txFav |-> 0, stale |-> FALSE, status |-> 0, outcome |-> "none"]

NoResp == [op |-> "none"]

\* The article a request's slug resolves to (0: none).
ReqArticle(r) == ArticleBySlug(req[r].slug)

\* Favourite documents of one article / of one (user, article) pair.
FavsOfArticle(a) == { f \in favourites : f.article_id = a }

FavsOfPair(u, a) == { f \in favourites : f.user_id = u /\ f.article_id = a }

Init ==
  /\ favourites = {}
  /\ favouriteCount = [a \in ArticleIds |-> 0]
  /\ nextId = 1
  /\ req = [r \in Reqs |-> NewReq]
  /\ resp = NoResp

\* The handler of a request returns (or its promise rejects): its locals are
\* gone; what stays is what the client saw and what became of the transaction.
Finished(rec, outcome) ==
  [rec EXCEPT !.pc = "done", !.found = 0, !.txFav = 0, !.stale = FALSE,
              !.outcome = outcome]

\* Requests are numbered in arrival order: request r arrives (its handler
\* starts) after request r - 1 has arrived.
Arrives(r) ==
  /\ req[r].pc = "new"
  /\ r > 1 => req[r - 1].pc # "new"

\* FavCheck with the counter bumped before the existence check is looked at:
\* the 409 path then leaves a changed counter behind.
FavCheckCountsFirst(r, viewer, slug) ==
  /\ Arrives(r)
  /\ LET a == ArticleBySlug(slug)
         isFavourited == FavsOfPair(viewer, a)
     IN  /\ req' = [req EXCEPT ![r] =
                      IF isFavourited # {}
                      THEN [@ EXCEPT !.op = "favourite", !.viewer = viewer,
                                     !.slug = slug, !.status = 409,
                                     !.pc = "done"]
                      ELSE [@ EXCEPT !.op = "favourite", !.viewer = viewer,
                                     !.slug = slug, !.pc = "tx1"]]
         /\ favouriteCount' =
              IF isFavourited # {}
              THEN [favouriteCount EXCEPT ![a] = @ + 1]
              ELSE favouriteCount
  /\ UNCHANGED <<favourites, nextId, resp>>

\* --------------------------------------------------------- favouriteArticle
\* Lines 170-182: findFirst on (user id, article slug); 409 if it finds one,
\* otherwise the handler goes on to the transaction.
FavCheck(r, viewer, slug) ==
  /\ Arrives(r)
  /\ LET a == ArticleBySlug(slug)
         isFavourited == FavsOfPair(viewer, a)
     IN  req' = [req EXCEPT ![r] =
                   IF isFavourited # {}
                   THEN [@ EXCEPT !.op = "favourite", !.viewer = viewer,
                                  !.slug = slug, !.status = 409,
                                  !.pc = "done"]
                   ELSE [@ EXCEPT !.op = "favourite", !.viewer = viewer,
                                  !.slug = slug, !.pc = "tx1"]]
  /\ UNCHANGED <<favourites, favouriteCount, nextId, resp>>

\* Lines 185-198: tx.favourite.create, connecting the user and the article by
\* slug.  The connect of a slug with no article throws: the transaction rolls
\* back and the handler ends with the rejection (no response is sent).
FavTxCreate(r) ==
  /\ req[r].pc = "tx1"
  /\ req[r].op = "favourite"
  /\ IF ReqArticle(r) = 0
     THEN /\ req' = [req EXCEPT ![r] = Finished(@, "rolledback")]
          /\ UNCHANGED nextId
     ELSE /\ req' = [req EXCEPT ![r].pc = "tx2", ![r].txFav = nextId]
          /\ nextId' = nextId + 1
  /\ UNCHANGED <<favourites, favouriteCount, resp>>

\* ------------------------------------------------------- unfavouriteArticle
\* Lines 216-226: findFirst on (user_id, article slug); 404 if none, otherwise
\* the handler keeps the found record's id for the delete.
UnfavCheck(r, viewer, slug) ==
  /\ Arrives(r)
  /\ LET a == ArticleBySlug(slug)
         matching == FavsOfPair(viewer, a)
     IN  IF matching = {}
         THEN req' = [req EXCEPT ![r] =
                        [@ EXCEPT !.op = "unfavourite", !.viewer = viewer,
                                  !.slug = slug, !.status = 404,
                                  !.pc = "done"]]
         ELSE \E f \in matching :
                req' = [req EXCEPT ![r] =
                          [@ EXCEPT !.op = "unfavourite", !.viewer = viewer,
                                    !.slug = slug, !.found = f.id,
                                    !.pc = "tx1"]]
  /\ UNCHANGED <<favourites, favouriteCount, nextId, resp>>

\* Another open transaction holds an uncommitted delete of Favourite id.
DeleteHeld(r, id) ==
  \E q \in Reqs \ {r} :
    /\ req[q].op = "unfavourite"
    /\ req[q].pc \in {"tx2", "tx3"}
    /\ req[q].found = id

\* Lines 229-233: tx.favourite.delete by id.  It throws when the record is
\* gone (deleted and committed by another request) or when another open
\* transaction already deleted it (write conflict): the transaction rolls back.
UnfavTxDelete(r) ==
  /\ req[r].pc = "tx1"
  /\ req[r].op = "unfavourite"
  /\ IF (\E f \in favourites : f.id = req[r].found) /\ ~DeleteHeld(r, req[r].found)
     THEN req' = [req EXCEPT ![r].pc = "tx2"]
     ELSE req' = [req EXCEPT ![r] = Finished(@, "rolledback")]
  /\ UNCHANGED <<favourites, favouriteCount, nextId, resp>>

\* ------------------------------------------------------ the shared tx steps
\* Another open transaction holds an uncommitted update of article a.
UpdateHeld(r, a) ==
  \E q \in Reqs \ {r} : req[q].pc = "tx3" /\ ReqArticle(q) = a

\* increment: 1 (line 206) / decrement: 1 (line 241).
Delta(r) == IF req[r].op = "favourite" THEN 1 ELSE -1

\* Lines 200-211 and 235-246: tx.article.update of favouriteCount, then
\* res.status(..).send(article) from inside the transaction callback.  The
\* update is a write conflict (the transaction rolls back, nothing is sent)
\* when the article was updated by a transaction still open or committed
\* since this transaction began.
TxUpdate(r) ==
  /\ req[r].pc = "tx2"
  /\ IF UpdateHeld(r, ReqArticle(r)) \/ req[r].stale
     THEN req' = [req EXCEPT ![r] = Finished(@, "rolledback")]
     ELSE req' = [req EXCEPT
                    ![r].pc = "tx3",
                    ![r].status = IF req[r].op = "favourite" THEN 201 ELSE 200]
  /\ UNCHANGED <<favourites, favouriteCount, nextId, resp>>

\* The relation write of a committing transaction.
CommitRelation(r) ==
  IF req[r].op = "favourite"
  THEN favourites \cup { [id |-> req[r].txFav, user_id |-> req[r].viewer,
                          article_id |-> ReqArticle(r)] }
  ELSE { f \in favourites : f.id # req[r].found }

\* CommitCounter with the decrement of unfavouriteArticle written as the
\* increment it was copied from.
CommitCounterAlwaysIncrements(r) ==
  [favouriteCount EXCEPT ![ReqArticle(r)] = @ + 1]

\* The counter write of a committing transaction.
CommitCounter(r) ==
  [favouriteCount EXCEPT ![ReqArticle(r)] = @ + Delta(r)]

\* Transactions that began (took their snapshot) before r commits and have
\* still to update the article r updated: their update will conflict.
MarkStale(r) ==
  [q \in Reqs |->
     IF q # r /\ req[q].pc = "tx2" /\ ReqArticle(q) = ReqArticle(r)
     THEN [req[q] EXCEPT !.stale = TRUE]
     ELSE req[q]]

\* Lines 184-212 and 228-247: the callback of prisma.$transaction returned, so
\* the transaction commits: both writes become visible together.
TxCommit(r) ==
  /\ req[r].pc = "tx3"
  /\ favourites' = CommitRelation(r)
  /\ favouriteCount' = CommitCounter(r)
  /\ req' = [MarkStale(r) EXCEPT ![r] = Finished(@, "committed")]
  /\ UNCHANGED <<nextId, resp>>

\* TxFail without the transaction: the two writes are plain sequential
\* calls, so a failure after tx.favourite.create leaves the created record.
TxFailKeepsRelation(r) ==
  /\ req[r].pc \in {"tx1", "tx2", "tx3"}
  /\ req' = [req EXCEPT ![r] = Finished(@, "rolledback")]
  /\ favourites' =
       IF req[r].op = "favourite" /\ req[r].pc \in {"tx2", "tx3"}
       THEN favourites \cup { [id |-> req[r].txFav, user_id |-> req[r].viewer,
                               article_id |-> ReqArticle(r)] }
       ELSE favourites
  /\ UNCHANGED <<favouriteCount, nextId, resp>>

\* A storage failure of a transaction's write or of its commit: the
\* transaction rolls back and prisma.$transaction rejects; the handler has no
\* catch, so nothing more is sent.
TxFail(r) ==
  /\ req[r].pc \in {"tx1", "tx2", "tx3"}
  /\ req' = [req EXCEPT ![r] = Finished(@, "rolledback")]
  /\ UNCHANGED <<favourites, favouriteCount, nextId, resp>>

\* ------------------------------------------------------ listing: helpers
\* A JSON number n, and what JSON carries for NaN or a missing value.
Num(n) == <<n>>

Null == << >>

\* const { limit = 10, page = 1 } = req.query (lines 252, 425, 611, 766): the
\* default, as the text parseInt reads it from.
DefaultLimit == "10"

DefaultPage == "1"

WithDefault(raw, default) == IF raw = Absent THEN default ELSE raw

\* parseInt(x as string): the leading decimal digits of x, NaN (serialized as
\* null in the pipeline) when there are none.
ParseInt(x) ==
  CASE x = "0" -> Num(0)
    [] x = "1" -> Num(1)
    [] x = "2" -> Num(2)
    [] x = "2x" -> Num(2)
    [] x = "10" -> Num(10)
    [] OTHER -> Null

\* parseInt(limit) * (parseInt(page) - 1), NaN when either is.
SkipOf(limit, page) ==
  IF limit = Null \/ page = Null THEN Null ELSE Num(limit[1] * (page[1] - 1))

\* { $skip: .. }, { $limit: .. }: the store rejects the pipeline (aggregateRaw
\* throws) unless $skip is a number >= 0 and $limit a number > 0.
SkipLimitRejected(limit, page) ==
  \/ SkipOf(limit, page) = Null
  \/ SkipOf(limit, page)[1] < 0
  \/ limit = Null
  \/ limit[1] <= 0

\* The $skip and $limit stages on a sorted sequence.
SkipStage(seq, n) == SubSeq(seq, n + 1, Len(seq))

LimitStage(seq, n) == SubSeq(seq, 1, IF n < Len(seq) THEN n ELSE Len(seq))

\* { $sort: { createdAt: -1 } }: the documents of S, latest first; key maps a
\* document to its creation time.
RECURSIVE SortDesc(_, _)
SortDesc(S, key) ==
  IF S = {} THEN << >>
  ELSE LET m == CHOOSE x \in S : \A y \in S : key[y] <= key[x]
       IN  <<m>> \o SortDesc(S \ {m}, key)

ByCreatedAt(S) == [x \in S |-> x.createdAt]

\* Favourite documents are created in id order.
ByFavouriteCreatedAt(S) == [x \in S |-> x.id]

\* CeilDivide with $floor in the place of $ceil.
FloorDivide(total, limit) == total \div limit

\* { $ceil: { $divide: [total, limit] } } for limit > 0.
CeilDivide(total, limit) ==
  IF total % limit = 0 THEN total \div limit ELSE (total \div limit) + 1

\* total_pages of the final $project: null when limit is NaN.
TotalPages(total, limit) ==
  IF limit = Null THEN Null ELSE Num(CeilDivide(total, limit[1]))

\* $options: "i".
Lower(c) ==
  CASE c = "G" -> "g"
    [] c = "P" -> "p"
    [] c = "Y" -> "y"
    [] OTHER -> c

\* { $regex: pattern, $options: "i" } on a string: pattern (plain characters)
\* occurs in str, letter case ignored.
RegexI(pattern, str) ==
  \E i \in 1..(Len(str) - Len(pattern) + 1) :
    \A j \in 1..Len(pattern) : Lower(str[i + j - 1]) = Lower(pattern[j])

\* The $lookup from User and $arrayElemAt: the author's public summary.
AuthorOf(a) ==
  LET u == CHOOSE u \in Users : u.id = a.author_id
  IN  [id |-> u.id, username |-> u.username]

\* Favourited with the user_id condition of the $lookup left out: a favourite
\* of anyone counts.
FavouritedByAnyone(a, viewer) ==
  Cardinality({ f \in favourites : f.article_id = a.id }) > 0

\* The $lookup from Favourite on (article, logged-in user) and
\* $gt: [{ $size: "$loggedInUserFavourite" }, 0].  An undefined user id
\* (viewer 0) matches no Favourite.
Favourited(a, viewer) ==
  Cardinality({ f \in favourites : f.article_id = a.id /\ f.user_id = viewer }) > 0

\* The final $project of the results facet.
Enrich(a, viewer) ==
  [id |-> a.id, slug |-> a.slug, author_id |-> a.author_id,
   createdAt |-> a.createdAt, author |-> AuthorOf(a),
   favouriteCount |-> favouriteCount[a.id],
   favourited |-> Favourited(a, viewer)]

EnrichAll(seq, viewer) == [i \in 1..Len(seq) |-> Enrich(seq[i], viewer)]

NoBody == [total_results |-> 0, total_pages |-> Null, page |-> Null,
           results |-> << >>]

\* What a listing request asked and what came of it.  status 0 with threw:
\* the handler's promise rejected and no response was sent.
Response(op, viewer, username, title, tags, limitRaw, pageRaw, status, threw, access, body) ==
  [op |-> op, viewer |-> viewer, username |-> username, title |-> title,
   tags |-> tags, limitRaw |-> limitRaw, pageRaw |-> pageRaw,
   status |-> status, threw |-> threw, access |-> access, body |-> body]

\* The last two pipeline stages: total_results from the count facet, and the
\* $project of total_results, total_pages, page and results.
PagedResult(total, limit, page, results) ==
  [total_results |-> total, total_pages |-> TotalPages(total, limit),
   page |-> page, results |-> results]

\* ------------------------------------------------------ listing: handlers
\* Lines 250-421.  The target user is looked up first (404 if absent); the
\* pipeline runs on the Favourite collection: the user's Favourite documents,
\* latest first, $skip, $limit, then each one's article, enriched.
GetFavouriteArticles(viewer, username, limitRaw, pageRaw) ==
  /\ resp = NoResp
  /\ LET limit == ParseInt(WithDefault(limitRaw, DefaultLimit))
         page == ParseInt(WithDefault(pageRaw, DefaultPage))
         targetUser == { u \in Users : u.username = username }
         matched == { f \in favourites :
                        \E u \in targetUser : f.user_id = u.id }
         sorted == SortDesc(matched, ByFavouriteCreatedAt(matched))
         slice == LimitStage(SkipStage(sorted, SkipOf(limit, page)[1]), limit[1])
         joined == [i \in 1..Len(slice) |->
                      CHOOSE a \in Articles : a.id = slice[i].article_id]
         R(status, threw, access, body) ==
           Response("getFavouriteArticles", viewer, username, << >>, << >>,
                    limitRaw, pageRaw, status, threw, access, body)
     IN  resp' =
           IF targetUser = {}
           THEN R(404, FALSE, <<"user.findUnique">>, NoBody)
           ELSE IF SkipLimitRejected(limit, page)
           THEN R(0, TRUE, <<"user.findUnique", "favourite.aggregateRaw">>,
                  NoBody)
           ELSE R(200, FALSE, <<"user.findUnique", "favourite.aggregateRaw">>,
                  PagedResult(Cardinality(matched), limit, page,
                              EnrichAll(joined, viewer)))
  /\ UNCHANGED <<favourites, favouriteCount, nextId, req>>

\* FeedMatch with the two ends of Follow swapped: the articles of the
\* viewer's followers.
FeedMatchOfFollowers(viewer) ==
  { a \in Articles :
      a.author_id \in { f.follower_id :
                          f \in { g \in Follows : g.following_id = viewer } } }

\* The articles whose author the viewer follows ($lookup from Follow on
\* follower_id, then $in on the following_id of what it found).
FeedMatch(viewer) ==
  { a \in Articles :
      a.author_id \in { f.following_id :
                          f \in { g \in Follows : g.follower_id = viewer } } }

\* Lines 423-607.  No lookup before the pipeline, which runs on the Article
\* collection: the followed authors' articles, latest first, $skip, $limit,
\* enriched.
GetFeedArticles(viewer, limitRaw, pageRaw) ==
  /\ resp = NoResp
  /\ LET limit == ParseInt(WithDefault(limitRaw, DefaultLimit))
         page == ParseInt(WithDefault(pageRaw, DefaultPage))
         matched == FeedMatch(viewer)
         sorted == SortDesc(matched, ByCreatedAt(matched))
         slice == LimitStage(SkipStage(sorted, SkipOf(limit, page)[1]), limit[1])
         R(status, threw, access, body) ==
           Response("getFeedArticles", viewer, Absent, << >>, << >>,
                    limitRaw, pageRaw, status, threw, access, body)
     IN  resp' =
           IF SkipLimitRejected(limit, page)
           THEN R(0, TRUE, <<"article.aggregateRaw">>, NoBody)
           ELSE R(200, FALSE, <<"article.aggregateRaw">>,
                  PagedResult(Cardinality(matched), limit, page,
                              EnrichAll(slice, viewer)))
  /\ UNCHANGED <<favourites, favouriteCount, nextId, req>>

\* GetUserCreatedArticles without the return on a missing target user: the
\* pipeline is sent for a user that does not exist.
GetUserCreatedArticlesUnchecked(viewer, username, limitRaw, pageRaw) ==
  /\ resp = NoResp
  /\ LET limit == ParseInt(WithDefault(limitRaw, DefaultLimit))
         page == ParseInt(WithDefault(pageRaw, DefaultPage))
         targetUser == { u \in Users : u.username = username }
         matched == { a \in Articles :
                        \E u \in targetUser : a.author_id = u.id }
         sorted == SortDesc(matched, ByCreatedAt(matched))
         R(status, threw, access, body) ==
           Response("getUserCreatedArticles", viewer, username, << >>, << >>,
                    limitRaw, pageRaw, status, threw, access, body)
     IN  resp' =
           IF limit = Num(0)
           THEN R(0, TRUE, <<"user.findUnique", "article.aggregateRaw">>,
                  NoBody)
           ELSE R(200, FALSE, <<"user.findUnique", "article.aggregateRaw">>,
                  PagedResult(Cardinality(matched), limit, page,
                              EnrichAll(sorted, viewer)))
  /\ UNCHANGED <<favourites, favouriteCount, nextId, req>>

\* Lines 609-762.  The target user is looked up first (404 if absent); the
\* results facet is $match, $sort and the enrichment: it has no $skip and no
\* $limit stage.  The store rejects the pipeline only for $divide by zero.
GetUserCreatedArticles(viewer, username, limitRaw, pageRaw) ==
  /\ resp = NoResp
  /\ LET limit == ParseInt(WithDefault(limitRaw, DefaultLimit))
         page == ParseInt(WithDefault(pageRaw, DefaultPage))
         targetUser == { u \in Users : u.username = username }
         matched == { a \in Articles :
                        \E u \in targetUser : a.author_id = u.id }
         sorted == SortDesc(matched, ByCreatedAt(matched))
         R(status, threw, access, body) ==
           Response("getUserCreatedArticles", viewer, username, << >>, << >>,
                    limitRaw, pageRaw, status, threw, access, body)
     IN  resp' =
           IF targetUser = {}
           THEN R(404, FALSE, <<"user.findUnique">>, NoBody)
           ELSE IF limit = Num(0)
           THEN R(0, TRUE, <<"user.findUnique", "article.aggregateRaw">>,
                  NoBody)
           ELSE R(200, FALSE, <<"user.findUnique", "article.aggregateRaw">>,
                  PagedResult(Cardinality(matched), limit, page,
                              EnrichAll(sorted, viewer)))
  /\ UNCHANGED <<favourites, favouriteCount, nextId, req>>

\* SearchMatch with $and in the place of $or.
SearchMatchAll(title, tags) ==
  LET byTitle(a) == title = << >> \/ RegexI(title, a.title)
      byTags(a) == tags = << >> \/ \E k \in 1..Len(a.tags) : RegexI(tags, a.tags[k])
  IN  { a \in Articles : byTitle(a) /\ byTags(a) }

\* Lines 766-775 and the $match of lines 782, 790: one regex per parameter
\* given, joined by $or; {} (every article) when none is given.  A regex on
\* tags matches when some tag matches.
SearchMatch(title, tags) ==
  LET byTitle(a) == title # << >> /\ RegexI(title, a.title)
      byTags(a) == tags # << >> /\ \E k \in 1..Len(a.tags) : RegexI(tags, a.tags[k])
  IN  IF title = << >> /\ tags = << >>
      THEN Articles
      ELSE { a \in Articles : byTitle(a) \/ byTags(a) }

\* Lines 764-916.  No lookup before the pipeline, which runs on the Article
\* collection: the matching articles, latest first, $skip, $limit, enriched.
SearchArticles(viewer, title, tags, limitRaw, pageRaw) ==
  /\ resp = NoResp
  /\ LET limit == ParseInt(WithDefault(limitRaw, DefaultLimit))
         page == ParseInt(WithDefault(pageRaw, DefaultPage))
         matched == SearchMatch(title, tags)
         sorted == SortDesc(matched, ByCreatedAt(matched))
         slice == LimitStage(SkipStage(sorted, SkipOf(limit, page)[1]), limit[1])
         R(status, threw, access, body) ==
           Response("searchArticles", viewer, Absent, title, tags,
                    limitRaw, pageRaw, status, threw, access, body)
     IN  resp' =
           IF SkipLimitRejected(limit, page)
           THEN R(0, TRUE, <<"article.aggregateRaw">>, NoBody)
           ELSE R(200, FALSE, <<"article.aggregateRaw">>,
                  PagedResult(Cardinality(matched), limit, page,
                              EnrichAll(slice, viewer)))
  /\ UNCHANGED <<favourites, favouriteCount, nextId, req>>

\* The viewer of a listing request: a logged-in user, or 0 when the request
\* carries no user id.
Viewers == UserIds \cup {0}

\* The Favourite collections that MaxFavs toggle requests can leave behind:
\* ids 1..MaxFavs, each absent or some viewer's favourite of some article a
\* toggle can name.
FavouriteStores ==
  LET slot == {<<0, 0>>} \cup
              (UserIds \X { ArticleBySlug(s) : s \in ToggleSlugs \ {"nope"} })
  IN  { { [id |-> i, user_id |-> g[i][1], article_id |-> g[i][2]] :
            i \in { j \in 1..MaxFavs : g[j] # <<0, 0>> } } :
        g \in [1..MaxFavs -> slot] }

\* A listing request arrives at a store the toggles left, none in flight.
ListInit ==
  /\ favourites \in FavouriteStores
  /\ favouriteCount =
       [a \in ArticleIds |-> Cardinality({ f \in favourites : f.article_id = a })]
  /\ nextId = MaxFavs + 1
  /\ req = [r \in Reqs |-> NewReq]
  /\ resp = NoResp

ListNext ==
  \/ \E v \in Viewers, u \in Usernames, l \in QueryNums, p \in QueryNums :
       GetFavouriteArticles(v, u, l, p)
  \/ \E v \in UserIds, l \in QueryNums, p \in QueryNums :
       GetFeedArticles(v, l, p)
  \/ \E v \in Viewers, u \in Usernames, l \in QueryNums, p \in QueryNums :
       GetUserCreatedArticles(v, u, l, p)
  \/ \E v \in Viewers, t \in QueryTexts, g \in QueryTexts,
        l \in QueryNums, p \in QueryNums :
       SearchArticles(v, t, g, l, p)

ListSpec == ListInit /\ [][ListNext]_vars

\* ------------------------------------------------------------- getArticle
\* Slugs a getArticle request may carry; "nope" is the slug of no article.
ArticleSlugs == { a.slug : a \in Articles } \cup {"nope"}

\* Lines 34-64.  findFirst by slug with the author included (404 if none),
\* then findFirst on Favourite where user_id, article_id: an undefined user id
\* drops that condition, so any favourite of the article is found, and
\* favourited = !id ? false : favouriteRelation ? true : false.
GetArticle(viewer, slug) ==
  /\ resp = NoResp
  /\ LET foundArticle == { a \in Articles : a.slug = slug }
         favouriteRelation(a) ==
           { f \in favourites :
               f.article_id = a.id /\ (viewer = 0 \/ f.user_id = viewer) }
         favourited(a) ==
           IF viewer = 0 THEN FALSE
           ELSE IF favouriteRelation(a) # {} THEN TRUE ELSE FALSE
     IN  resp' =
           IF foundArticle = {}
           THEN [op |-> "getArticle", viewer |-> viewer, slug |-> slug,
                 status |-> 404, article |-> << >>]
           ELSE LET a == CHOOSE a \in foundArticle : TRUE
                IN  [op |-> "getArticle", viewer |-> viewer, slug |-> slug,
                     status |-> 200,
                     article |-> << [id |-> a.id, slug |-> a.slug,
                                     author_id |-> a.author_id,
                                     createdAt |-> a.createdAt,
                                     author |-> AuthorOf(a),
                                     favouriteCount |-> favouriteCount[a.id],
                                     favourited |-> favourited(a)] >>]
  /\ UNCHANGED <<favourites, favouriteCount, nextId, req>>

\* The read operations: the four listings and getArticle.
ReadNext ==
  \/ ListNext
  \/ \E v \in Viewers, s \in ArticleSlugs : GetArticle(v, s)

ReadSpec == ListInit /\ [][ReadNext]_vars

\* Concurrent requests: the handlers' awaits interleave freely.
Next ==
  \/ \E r \in Reqs, v \in UserIds, s \in ToggleSlugs : FavCheck(r, v, s)
  \/ \E r \in Reqs, v \in UserIds, s \in ToggleSlugs : UnfavCheck(r, v, s)
  \/ \E r \in Reqs : FavTxCreate(r)
  \/ \E r \in Reqs : UnfavTxDelete(r)
  \/ \E r \in Reqs : TxUpdate(r)
  \/ \E r \in Reqs : TxCommit(r)
  \/ \E r \in Reqs : TxFail(r)

Spec == Init /\ [][Next]_vars

\* No other request is in flight while r runs.
Alone(r) == \A q \in Reqs \ {r} : req[q].pc \in {"new", "done"}

\* A single client that awaits the end of each call before the next one.
SeqNext ==
  \/ \E r \in Reqs, v \in UserIds, s \in ToggleSlugs :
        Alone(r) /\ FavCheck(r, v, s)
  \/ \E r \in Reqs, v \in UserIds, s \in ToggleSlugs :
        Alone(r) /\ UnfavCheck(r, v, s)
  \/ \E r \in Reqs : Alone(r) /\ FavTxCreate(r)
  \/ \E r \in Reqs : Alone(r) /\ UnfavTxDelete(r)
  \/ \E r \in Reqs : Alone(r) /\ TxUpdate(r)
  \/ \E r \in Reqs : Alone(r) /\ TxCommit(r)
  \/ \E r \in Reqs : Alone(r) /\ TxFail(r)

SeqSpec == Init /\ [][SeqNext]_vars

\* ================================================================== claims

\* C1: in every reachable state, under any interleaving of the handlers'
\* steps, every article's favouriteCount equals the number of Favourite
\* records that reference the article.
C1_CountEqualsRecords ==
  \A a \in ArticleIds : favouriteCount[a] = Cardinality(FavsOfArticle(a))

\* C1 witness: an unfavourite has committed after favourites did, and some
\* article still counts a favourite.
C1_Witness ==
  /\ \E r \in Reqs : req[r].op = "unfavourite" /\ req[r].outcome = "committed"
  /\ \E a \in ArticleIds : favouriteCount[a] >= 1

\* C2: there is at most one Favourite record per (user, article) pair, so two
\* favouriteArticle calls of one viewer on one article never both create one.
C2_OneFavouritePerPair ==
  \A u \in UserIds, a \in ArticleIds : Cardinality(FavsOfPair(u, a)) <= 1

\* C3: every step changes the Favourite records of an article and its counter
\* together and by the same amount, and a step in which a toggle's
\* transaction fails (rolls back) leaves the stored state as it was.
C3_AllOrNothing ==
  [][ /\ \A a \in ArticleIds :
            favouriteCount'[a] - favouriteCount[a]
              = Cardinality(FavsOfArticle(a)') - Cardinality(FavsOfArticle(a))
      /\ \A r \in Reqs :
            (req[r].outcome = "none" /\ req'[r].outcome = "rolledback")
              => UNCHANGED db ]_vars

\* C3 witness: a favourite whose two writes were made (its response was sent)
\* was rolled back, and neither the record nor the count is there.
C3_Witness ==
  \E r \in Reqs :
    /\ req[r].op = "favourite"
    /\ req[r].outcome = "rolledback"
    /\ req[r].status = 201
    /\ FavsOfPair(req[r].viewer, ReqArticle(r)) = {}
    /\ favouriteCount[ReqArticle(r)] = 0

\* C4: of two calls in sequence by one viewer on one existing article, with no
\* other toggle in between, a favourite answered 201 is followed by a
\* favourite answered 409, and an unfavourite answered 200 by one answered 404.
C4_SuccessThenFailure ==
  \A r \in Reqs \ {MaxReqs} :
    ( /\ req[r].pc = "done" /\ req[r + 1].pc = "done"
      /\ req[r].op = req[r + 1].op
      /\ req[r].viewer = req[r + 1].viewer
      /\ req[r].slug = req[r + 1].slug
      /\ ReqArticle(r) # 0 )
    => /\ (req[r].op = "favourite" /\ req[r].status = 201)
            => req[r + 1].status = 409
       /\ (req[r].op = "unfavourite" /\ req[r].status = 200)
            => req[r + 1].status = 404

\* The same sequence when the first call's transaction committed: the part of
\* C4 that the existence checks of the code do give.
SuccessCommittedThenFailure ==
  \A r \in Reqs \ {MaxReqs} :
    ( /\ req[r].pc = "done" /\ req[r + 1].pc = "done"
      /\ req[r].op = req[r + 1].op
      /\ req[r].viewer = req[r + 1].viewer
      /\ req[r].slug = req[r + 1].slug
      /\ req[r].outcome = "committed" )
    => /\ req[r].op = "favourite"
            => (req[r].status = 201 /\ req[r + 1].status = 409)
       /\ req[r].op = "unfavourite"
            => (req[r].status = 200 /\ req[r + 1].status = 404)

\* C5: the step in which a favouriteArticle call is answered 409, or an
\* unfavouriteArticle call 404, is the whole call, and it leaves the Favourite
\* records and every favouriteCount unchanged.
C5_FailedToggleChangesNothing ==
  [][ \A r \in Reqs :
        (req[r].status = 0 /\ req'[r].status \in {409, 404})
          => (req[r].pc = "new" /\ req'[r].pc = "done" /\ UNCHANGED db) ]_vars

\* C5 witness: one call was answered 409 and another 404 while a favourite is
\* stored.
C5_Witness ==
  /\ \E r \in Reqs : req[r].op = "favourite" /\ req[r].status = 409
  /\ \E r \in Reqs : req[r].op = "unfavourite" /\ req[r].status = 404
  /\ favourites # {}

\* C6: a favouriteArticle call whose slug matches no article is answered 404,
\* and it creates no Favourite record and changes no counter.
C6_UnknownSlugNotFound ==
  \A r \in Reqs :
    (req[r].op = "favourite" /\ req[r].pc = "done" /\ ReqArticle(r) = 0)
      => (req[r].status = 404 /\ req[r].outcome # "committed")

\* ---------------------------------------------------- claims on the listings
\* What the claims read off a listing request: the limit and the page it asks
\* for when they are decimal numerals (-1: not a numeral), and the documents
\* its filter matches, each with its creation time and its article.
AskedNumber(raw, default) ==
  CASE raw = Absent -> default
    [] raw = "0" -> 0
    [] raw = "1" -> 1
    [] raw = "2" -> 2
    [] OTHER -> -1

AskedLimit == AskedNumber(resp.limitRaw, 10)

AskedPage == AskedNumber(resp.pageRaw, 1)

FilterOf(r) ==
  CASE r.op = "getFavouriteArticles" ->
         { [at |-> f.id, article |-> f.article_id] :
             f \in { g \in favourites :
                       \E u \in Users :
                         u.username = r.username /\ g.user_id = u.id } }
    [] r.op = "getUserCreatedArticles" ->
         { [at |-> a.createdAt, article |-> a.id] :
             a \in { b \in Articles :
                       \E u \in Users :
                         u.username = r.username /\ b.author_id = u.id } }
    [] r.op = "getFeedArticles" ->
         { [at |-> a.createdAt, article |-> a.id] : a \in FeedMatch(r.viewer) }
    [] r.op = "searchArticles" ->
         { [at |-> a.createdAt, article |-> a.id] :
             a \in SearchMatch(r.title, r.tags) }
    [] OTHER -> {}

\* The number of matching documents created later than x.
RankIn(M, x) == Cardinality({ y \in M : y.at > x.at })

\* results is the page of M: as many records as M has at ranks skip ..
\* skip + limit - 1, the i-th being the article of the document at rank
\* skip + i - 1.
IsPageOf(results, M, limit, page) ==
  LET skip == limit * (page - 1)
      inPage == { x \in M : RankIn(M, x) >= skip /\ RankIn(M, x) < skip + limit }
  IN  /\ Len(results) = Cardinality(inPage)
      /\ \A i \in 1..Len(results) :
           \E x \in inPage :
             RankIn(M, x) = skip + i - 1 /\ results[i].id = x.article

\* C7: for every listing operation, limit > 0 and page >= 1, results is the
\* slice of the filtered set, latest first, that starts at offset
\* limit*(page-1) and holds at most limit records.
C7_ResultsArePageSlice ==
  (resp.op # "none" /\ resp.status = 200 /\ AskedLimit > 0 /\ AskedPage >= 1)
    => IsPageOf(resp.body.results, FilterOf(resp), AskedLimit, AskedPage)

\* The same for the three listings that have the $skip and $limit stages.
PageSliceWhereSkipLimit ==
  ( /\ resp.op \in {"getFavouriteArticles", "getFeedArticles", "searchArticles"}
    /\ resp.status = 200 /\ AskedLimit > 0 /\ AskedPage >= 1 )
    => IsPageOf(resp.body.results, FilterOf(resp), AskedLimit, AskedPage)

\* C8: for every listing operation and limit > 0, a result carries as
\* total_results the number of records its filter matches, as total_pages the
\* least number of pages of limit records that hold them all, and as page the
\* requested page number, whatever it is.
C8_TotalsAndPageEcho ==
  (resp.op # "none" /\ resp.status = 200 /\ AskedLimit > 0)
    => /\ resp.body.total_results = Cardinality(FilterOf(resp))
       /\ Len(resp.body.total_pages) = 1
       /\ resp.body.total_pages[1] * AskedLimit >= resp.body.total_results
       /\ (resp.body.total_pages[1] - 1) * AskedLimit < resp.body.total_results
       /\ resp.body.total_pages[1] >= 0
       /\ AskedPage >= 0 => resp.body.page = <<AskedPage>>

\* C8 witness: one favourite at limit 2 makes one page, and the request for
\* page 2 of it is answered with page 2 and no results.
C8_Witness ==
  /\ resp.op = "getFavouriteArticles" /\ resp.status = 200
  /\ AskedLimit = 2 /\ AskedPage = 2
  /\ resp.body.total_results = 1
  /\ resp.body.total_pages = <<1>>
  /\ resp.body.page = <<2>>
  /\ resp.body.results = << >>

\* C9: a listing request with limit = 0 (whose target user, if it names one,
\* exists) is rejected with InvalidQuery, a 400 response.
C9_ZeroLimitRejected ==
  (resp.op # "none" /\ resp.limitRaw = "0" /\ resp.status # 404)
    => (resp.status = 400 /\ ~resp.threw)

\* C10: a listing request whose limit or page is not a number is rejected
\* with InvalidQuery (400), and no storage call is made for it.
C10_NonNumericRejectedFirst ==
  (resp.op # "none" /\ (resp.limitRaw = "abc" \/ resp.pageRaw = "abc"))
    => (resp.status = 400 /\ resp.access = << >>)

\* ------------------------------------------------------ claims on the reads
\* The articles a read returned: the one of getArticle, the results of a
\* listing.
ReturnedArticles ==
  IF resp.op = "none" \/ resp.status # 200 THEN << >>
  ELSE IF resp.op = "getArticle" THEN resp.article
  ELSE resp.body.results

\* C11: every article returned by getArticle or by a listing carries
\* favourited = TRUE exactly when the request has a viewer id and a Favourite
\* record of that viewer for that article is stored; without a viewer id it
\* carries FALSE.
C11_FavouritedIffRecord ==
  \A i \in 1..Len(ReturnedArticles) :
    LET art == ReturnedArticles[i]
    IN  art.favourited
          <=> ( /\ resp.viewer # 0
                /\ \E f \in favourites :
                     f.user_id = resp.viewer /\ f.article_id = art.id )

\* C11 witness: a listing returned an article that someone else favourited
\* and the viewer did not, next to one the viewer did.
C11_Witness ==
  /\ resp.op = "getUserCreatedArticles" /\ resp.status = 200
  /\ resp.viewer # 0
  /\ \E i, j \in 1..Len(ReturnedArticles) :
       /\ ReturnedArticles[i].favourited
       /\ ~ReturnedArticles[j].favourited
       /\ ReturnedArticles[j].favouriteCount > 0

\* The ids of the users the viewer of the request follows.
FollowedByViewer ==
  { f.following_id : f \in { g \in Follows : g.follower_id = resp.viewer } }

\* C12: a feed counts and returns only articles whose author the viewer
\* follows (total_results is the number of such articles), and for a viewer
\* who follows nobody, with limit and page left out, the response is
\* total_results 0, total_pages 0, page 1 and no results.
C12_FeedOfFollowedAuthors ==
  (resp.op = "getFeedArticles" /\ resp.status = 200)
    => /\ \A i \in 1..Len(resp.body.results) :
            resp.body.results[i].author_id \in FollowedByViewer
       /\ resp.body.total_results
            = Cardinality({ a \in Articles : a.author_id \in FollowedByViewer })
       /\ (FollowedByViewer = {} /\ resp.limitRaw = Absent /\ resp.pageRaw = Absent)
            => resp.body = [total_results |-> 0, total_pages |-> <<0>>,
                            page |-> <<1>>, results |-> << >>]

\* C12 witness: the default feed of alice, who follows nobody but is followed,
\* was answered.
C12_Witness ==
  /\ resp.op = "getFeedArticles" /\ resp.status = 200
  /\ FollowedByViewer = {}
  /\ \E f \in Follows : f.following_id = resp.viewer
  /\ resp.limitRaw = Absent /\ resp.pageRaw = Absent
  /\ resp.body.total_results = 0

\* What a case-insensitive search for a text finds in the stored titles
\* ("Go", "go2", "Py") and in the stored tags (["go", "be"], [], ["PY"]).
TitleHits(text) ==
  CASE text = <<"g", "o">> -> {1, 2}
    [] text = <<"y">> -> {3}
    [] OTHER -> {}

TagsHits(text) ==
  CASE text = <<"g", "o">> -> {1}
    [] text = <<"y">> -> {3}
    [] OTHER -> {}

\* The articles a search is to match: the union of the title hits and the
\* tags hits of the parameters given, every article when none is given.
SearchExpected ==
  IF resp.title = << >> /\ resp.tags = << >>
  THEN ArticleIds
  ELSE (IF resp.title = << >> THEN {} ELSE TitleHits(resp.title))
         \cup (IF resp.tags = << >> THEN {} ELSE TagsHits(resp.tags))

\* C13: a search matches the articles that the title parameter or the tags
\* parameter matches, each counted only when given; with neither given it
\* matches every article.  total_results is the number of matches and results
\* is a page of them, latest first.
C13_SearchIsOrOfGiven ==
  (resp.op = "searchArticles" /\ resp.status = 200)
    => /\ resp.body.total_results = Cardinality(SearchExpected)
       /\ \A i \in 1..Len(resp.body.results) :
            resp.body.results[i].id \in SearchExpected
       /\ (AskedLimit > 0 /\ AskedPage >= 1)
            => IsPageOf(resp.body.results,
                        { [at |-> a.createdAt, article |-> a.id] :
                            a \in { b \in Articles : b.id \in SearchExpected } },
                        AskedLimit, AskedPage)

\* C13 witness: a search by title and tags that match different articles
\* returned both kinds.
C13_Witness ==
  /\ resp.op = "searchArticles" /\ resp.status = 200
  /\ resp.title = <<"g", "o">> /\ resp.tags = <<"y">>
  /\ resp.body.total_results = 3
  /\ Len(resp.body.results) = 3

\* The ids of the users that bear the username of the request (none or one).
TargetIds == { u.id : u \in { w \in Users : w.username = resp.username } }

\* C14: getUserCreatedArticles and getFavouriteArticles for a username of no
\* user answer 404 after the user lookup alone, with no listing query; for an
\* existing user they count and return the articles whose author_id is that
\* user's id, respectively the articles of the Favourite records whose
\* user_id is that user's id.
C14_TargetUserResolved ==
  (resp.op \in {"getUserCreatedArticles", "getFavouriteArticles"})
    => /\ TargetIds = {}
            => (resp.status = 404 /\ resp.access = <<"user.findUnique">>)
       /\ TargetIds # {} => resp.status # 404
       /\ (resp.status = 200 /\ resp.op = "getUserCreatedArticles")
            => /\ resp.body.total_results
                    = Cardinality({ a \in Articles : a.author_id \in TargetIds })
               /\ \A i \in 1..Len(resp.body.results) :
                    resp.body.results[i].author_id \in TargetIds
       /\ (resp.status = 200 /\ resp.op = "getFavouriteArticles")
            => /\ resp.body.total_results
                    = Cardinality({ f \in favourites : f.user_id \in TargetIds })
               /\ \A i \in 1..Len(resp.body.results) :
                    \E f \in favourites :
                      /\ f.user_id \in TargetIds
                      /\ f.article_id = resp.body.results[i].id

\* C14 witness: a listing for the username of no user was answered 404 while
\* Favourite records are stored.
C14_Witness ==
  /\ resp.op \in {"getUserCreatedArticles", "getFavouriteArticles"}
  /\ resp.username = "ghost"
  /\ resp.status = 404
  /\ favourites # {}

\* C15: a toggle request that was answered 201 or 200 and whose handler has
\* ended has its transaction committed: its Favourite record change and its
\* counter change are stored, not rolled back.
C15_SuccessOnlyAfterCommit ==
  \A r \in Reqs :
    (req[r].pc = "done" /\ req[r].status \in {200, 201})
      => req[r].outcome = "committed"

====
